---- MODULE Spec2Model ----
(***************************************************************************)
(* Model of src/main.py: the INA219 multi-sensor collector.                *)
(*                                                                         *)
(* One process run ("session") is main(): build the sensor registry, read  *)
(* the resume identifier from the csv log, poll every sensor round after   *)
(* round into the in-memory list `samples`, and on KeyboardInterrupt write *)
(* the list to the csv file, on DeviceRangeError exit without writing.     *)
(* Sessions follow one another on the same path; the file persists.        *)
(*                                                                         *)
(* Text is modelled at character level: a string is a sequence of          *)
(* one-character strings, a file is a sequence of lines (without their     *)
(* terminators).  Measurements and timestamps are opaque one-character     *)
(* tokens; the run identifier is formatted and parsed digit by digit.      *)
(*                                                                         *)
(* KeyboardInterrupt is asynchronous: it may arrive at any position of     *)
(* main().  One interrupt per session is modelled (none during the         *)
(* except-handlers themselves).                                            *)
(***************************************************************************)
EXTENDS Integers, Sequences, FiniteSets, TLC

VARIABLES
    session,      \* number of the current process run on the path
    tests,        \* the -t/--tests option: sequence of <<label, i2c_addr>>
    ina_map,      \* the registry dict, in insertion order: seq of [label, addr]
    samples,      \* the in-memory buffer (main.py:105)
    i,            \* the run identifier (main.py:120, 143); 0 while unassigned
    k,            \* position of the for loop over ina_map.items() (main.py:129)
    pc,           \* position of the process in main()
    exit_status,  \* -1 while running, else the process exit status
    file,         \* the csv file at testpath: [exists, lines]
    file0,        \* history: the file as it was when the process started
    initial,      \* history: the file the first session found at the path
    last_id,      \* history: run id of the file's last data row, 0 if none known
    rounds,       \* history: passes of the for loop completed in this session
    reads,        \* history: handle reads (power/voltage/current) performed
    raised,       \* history: the exception that ended normal flow, or "none"
    flushes       \* history: calls of write_to_csv in this session

vars == <<session, tests, ina_map, samples, i, k, pc, exit_status, file,
          file0, initial, last_id, rounds, reads, raised, flushes>>

----------------------------------------------------------------------------
(* Bounds *)

MaxSessions == 3

MaxRounds == 2

----------------------------------------------------------------------------
(* Characters and Python's int() / str() *)

HexLower == <<"0","1","2","3","4","5","6","7","8","9","a","b","c","d","e","f">>

HexUpper == <<"0","1","2","3","4","5","6","7","8","9","A","B","C","D","E","F">>

Whitespace == {" ", "\n", "\r", "\t"}

\* value of one digit character; 16 for a character that is no digit
DigitValue(c) ==
    IF \E d \in 1..16 : HexLower[d] = c
    THEN (CHOOSE d \in 1..16 : HexLower[d] = c) - 1
    ELSE IF \E d \in 1..16 : HexUpper[d] = c
         THEN (CHOOSE d \in 1..16 : HexUpper[d] = c) - 1
         ELSE 16

RECURSIVE lstrip(_)
lstrip(s) ==
    IF s # << >> /\ Head(s) \in Whitespace THEN lstrip(Tail(s)) ELSE s

RECURSIVE rstrip(_)
rstrip(s) ==
    IF s # << >> /\ s[Len(s)] \in Whitespace
    THEN rstrip(SubSeq(s, 1, Len(s) - 1))
    ELSE s

RECURSIVE DigitsValue(_, _)
DigitsValue(s, base) ==
    IF s = << >> THEN 0
    ELSE DigitsValue(SubSeq(s, 1, Len(s) - 1), base) * base + DigitValue(s[Len(s)])

ValueError == [ok |-> FALSE, val |-> 0]

\* Python's int(s, base) for base 10 and 16: surrounding whitespace is
\* stripped, one sign is accepted, base 16 accepts a 0x prefix, and at least
\* one digit must follow.  (Underscore separators are not modelled.)
int(s, base) ==
    LET t      == rstrip(lstrip(s))
        signed == t # << >> /\ Head(t) \in {"+", "-"}
        u      == IF signed THEN Tail(t) ELSE t
        prefix == base = 16 /\ Len(u) >= 2 /\ u[1] = "0" /\ u[2] \in {"x", "X"}
        body   == IF prefix THEN SubSeq(u, 3, Len(u)) ELSE u
        valid  == body # << >> /\ \A j \in 1..Len(body) : DigitValue(body[j]) < base
        mag    == DigitsValue(body, base)
    IN  IF valid
        THEN [ok |-> TRUE, val |-> IF signed /\ Head(t) = "-" THEN 0 - mag ELSE mag]
        ELSE ValueError

\* Python's str(n) of an int
RECURSIVE str(_)
str(n) ==
    IF n < 0 THEN <<"-">> \o str(0 - n)
    ELSE IF n < 10 THEN <<HexLower[n + 1]>>
    ELSE str(n \div 10) \o <<HexLower[(n % 10) + 1]>>

\* Python's line.split(","): always at least one field
RECURSIVE split(_)
split(line) ==
    IF \E p \in 1..Len(line) : line[p] = ","
    THEN LET p == CHOOSE q \in 1..Len(line) :
                      line[q] = "," /\ \A r \in 1..(q - 1) : line[r] # ","
         IN  <<SubSeq(line, 1, p - 1)>> \o split(SubSeq(line, p + 1, Len(line)))
    ELSE <<line>>

\* csv.writer with QUOTE_MINIMAL: a field holding the delimiter, the quote
\* character or a line break is quoted, its quotes doubled
RECURSIVE DoubleQuotes(_)
DoubleQuotes(f) ==
    IF f = << >> THEN << >>
    ELSE (IF Head(f) = "\"" THEN <<"\"", "\"">> ELSE <<Head(f)>>) \o DoubleQuotes(Tail(f))

csv_field(f) ==
    IF \E p \in 1..Len(f) : f[p] \in {",", "\"", "\n", "\r"}
    THEN <<"\"">> \o DoubleQuotes(f) \o <<"\"">>
    ELSE f

RECURSIVE join(_)
join(fields) ==
    IF Len(fields) = 0 THEN << >>
    ELSE IF Len(fields) = 1 THEN csv_field(fields[1])
    ELSE csv_field(fields[1]) \o <<",">> \o join(Tail(fields))

----------------------------------------------------------------------------
(* The program's constants and the inputs of the model *)

\* main.py:109-117
csv_header ==
    << <<"t","e","s","t"," ","i","d">>,
       <<"s","e","n","s","o","r"," ","l","a","b","e","l">>,
       <<"t","i","m","e","s","t","a","m","p"," ","e","p","o","c","h"," ","s","e","c">>,
       <<"t","i","m","e","s","t","a","m","p"," ","d","a","t","e","t","i","m","e">>,
       <<"p","o","w","e","r"," ","m","W">>,
       <<"s","u","p","p","l","y"," ","v","o","l","t","a","g","e"," ","V">>,
       <<"c","u","r","r","e","n","t"," ","m","A">> >>

\* sensor labels and I2C address strings given with -t
LabelA == <<"a">>

LabelB == <<"b">>

Addr40 == <<"0","x","4","0">>

Addr41 == <<"0","x","4","1">>

AddrAbsent == <<"0","x","4","5">>

AddrMalformed == <<"0","x","4","g">>

\* I2C addresses at which a device answers on the bus (0x40, 0x41)
Attached == {64, 65}

\* the values of the -t option tried: one sensor, two sensors, a label given
\* twice, a malformed address, an address with no device
Configs ==
    { << <<LabelA, Addr40>> >>,
      << <<LabelA, Addr40>>, <<LabelB, Addr41>> >>,
      << <<LabelA, Addr40>>, <<LabelB, Addr41>>, <<LabelA, Addr41>> >>,
      << <<LabelA, Addr40>>, <<LabelB, AddrMalformed>> >>,
      << <<LabelA, AddrAbsent>> >> }

\* opaque text of a timestamp and of the three measurements
Times == { <<"T">> }

Power == { <<"P">> }

Voltage == { <<"V">> }

Current == { <<"I">> }

\* the header row as csv.writer writes it (main.py:35)
HeaderLine == join(csv_header)

NoFile == [exists |-> FALSE, lines |-> << >>]

\* the file found at the path by the first session, with the run id of its
\* last data row: no file, an empty file, a file holding the header alone, a
\* well-formed log ending with run id 9, a log whose last row is cut short
InitialFiles ==
    { [f |-> NoFile, last |-> 0],
      [f |-> [exists |-> TRUE, lines |-> << >>], last |-> 0],
      [f |-> [exists |-> TRUE, lines |-> << HeaderLine >>],
       last |-> 0],
      [f |-> [exists |-> TRUE,
              lines |-> << HeaderLine,
                           <<"9",",","a",",","T",",","D","T",",","P",",","V",",","I">> >>],
       last |-> 9],
      [f |-> [exists |-> TRUE,
              lines |-> << HeaderLine,
                           <<"4">> >>],
       last |-> 4] }

----------------------------------------------------------------------------
(* The functions of main.py *)

\* a dict in which a key set again moves to the end
DictSet_moves_key(d, key, val) ==
    SelectSeq(d, LAMBDA e : e.label # key) \o <<[label |-> key, addr |-> val]>>

\* dict[key] = val: a new key goes last, a known key keeps its position
DictSet(d, key, val) ==
    IF \E p \in 1..Len(d) : d[p].label = key
    THEN [p \in 1..Len(d) |->
             IF d[p].label = key THEN [label |-> key, addr |-> val] ELSE d[p]]
    ELSE Append(d, [label |-> key, addr |-> val])

\* create_ina (main.py:43-47): INA219(...).configure() talks to the device
\* and raises when none answers at the address
create_ina(i2c_address) ==
    IF i2c_address \in Attached
    THEN [ok |-> TRUE, val |-> i2c_address]
    ELSE [ok |-> FALSE, val |-> 0]

\* create_ina_map that leaves out the entries that raise
RECURSIVE create_ina_map_skips_failures(_)
create_ina_map_skips_failures(ts) ==
    IF ts = << >> THEN [ok |-> TRUE, map |-> << >>]
    ELSE LET before == create_ina_map_skips_failures(SubSeq(ts, 1, Len(ts) - 1))
             entry  == ts[Len(ts)]
             addr   == int(entry[2], 16)
             ina    == create_ina(addr.val)
         IN  IF addr.ok /\ ina.ok
             THEN [ok |-> TRUE, map |-> DictSet(before.map, entry[1], ina.val)]
             ELSE before

\* create_ina_map (main.py:50-51): the dict comprehension, entry by entry in
\* the order given; the first entry that raises ends it and no dict results
RECURSIVE create_ina_map(_)
create_ina_map(ts) ==
    IF ts = << >> THEN [ok |-> TRUE, map |-> << >>]
    ELSE LET before == create_ina_map(SubSeq(ts, 1, Len(ts) - 1))
             entry  == ts[Len(ts)]
             addr   == int(entry[2], 16)
             ina    == create_ina(addr.val)
         IN  IF before.ok /\ addr.ok /\ ina.ok
             THEN [ok |-> TRUE, map |-> DictSet(before.map, entry[1], ina.val)]
             ELSE [ok |-> FALSE, map |-> << >>]

\* get_test_id without the + 1 of main.py:28
get_test_id_same_id(f) ==
    IF ~f.exists THEN [ok |-> TRUE, val |-> 1, err |-> "none"]
    ELSE IF f.lines = << >>
         THEN [ok |-> FALSE, val |-> 0, err |-> "UnboundLocalError"]
         ELSE LET n == int(split(f.lines[Len(f.lines)])[1], 10)
              IN  IF n.ok
                  THEN [ok |-> TRUE, val |-> n.val, err |-> "none"]
                  ELSE [ok |-> FALSE, val |-> 0, err |-> "ValueError"]

\* get_test_id (main.py:19-28).  A file without any line leaves `line`
\* unbound (UnboundLocalError); a first field that is no integer makes int()
\* raise ValueError.  Neither is caught by main().
get_test_id(f) ==
    IF ~f.exists THEN [ok |-> TRUE, val |-> 1, err |-> "none"]
    ELSE IF f.lines = << >>
         THEN [ok |-> FALSE, val |-> 0, err |-> "UnboundLocalError"]
         ELSE LET last_row == f.lines[Len(f.lines)]
                  rid      == split(last_row)[1]
                  n        == int(rid, 10)
              IN  IF n.ok
                  THEN [ok |-> TRUE, val |-> n.val + 1, err |-> "none"]
                  ELSE [ok |-> FALSE, val |-> 0, err |-> "ValueError"]

\* csv.writer.writerow of one sample tuple: str() of every value, joined
writerow(sample) ==
    join(<<str(sample[1]), sample[2], sample[3], sample[4],
           sample[5], sample[6], sample[7]>>)

\* write_to_csv that writes the header on every call
write_to_csv_header_always(header, rows, f) ==
    [exists |-> TRUE,
     lines  |-> f.lines \o <<join(header)>> \o [n \in 1..Len(rows) |-> writerow(rows[n])]]

\* write_to_csv that writes the buffer last sample first
write_to_csv_reversed(header, rows, f) ==
    LET ensured == IF ~f.exists
                   THEN [exists |-> TRUE, lines |-> <<join(header)>>]
                   ELSE f
    IN  [exists |-> TRUE,
         lines  |-> ensured.lines \o
                    [n \in 1..Len(rows) |-> writerow(rows[Len(rows) + 1 - n])]]

\* write_to_csv that opens the file for writing instead of appending
write_to_csv_truncates(header, rows, f) ==
    [exists |-> TRUE,
     lines  |-> (IF ~f.exists THEN <<join(header)>> ELSE << >>) \o
                [n \in 1..Len(rows) |-> writerow(rows[n])]]

\* write_to_csv (main.py:31-40): the header if the file does not exist,
\* then one appended row per sample
write_to_csv(header, rows, f) ==
    LET ensured == IF ~f.exists
                   THEN [exists |-> TRUE, lines |-> <<join(header)>>]
                   ELSE f
    IN  [exists |-> TRUE,
         lines  |-> ensured.lines \o [n \in 1..Len(rows) |-> writerow(rows[n])]]

\* convert_to_datetime (main.py:54-56): the formatted text of a timestamp
convert_to_datetime(ts) == <<"D">> \o ts

----------------------------------------------------------------------------
(* The process: main() (main.py:95-151), one action per step *)

\* the Supervisor state of the design that a position of main() belongs to
State ==
    CASE pc \in {"create_ina_map", "get_test_id"} -> "INIT"
      [] pc \in {"for", "incr"}                   -> "RUNNING"
      [] pc = "except_KeyboardInterrupt"          -> "CANCELLED"
      [] pc = "write_to_csv"                      -> "FLUSHING"
      [] pc = "except_DeviceRangeError"           -> "FAILED"
      [] OTHER                                    -> pc

Terminated == pc \in {"DONE", "ABORTED", "Traceback"}

NewProcess(t, f) ==
    /\ tests = t
    /\ ina_map = << >>
    /\ samples = << >>
    /\ i = 0
    /\ k = 1
    /\ pc = "create_ina_map"
    /\ exit_status = -1
    /\ file = f
    /\ file0 = f
    /\ rounds = 0
    /\ reads = 0
    /\ raised = "none"
    /\ flushes = 0

Init ==
    \E t \in Configs, init \in InitialFiles :
        /\ session = 1
        /\ initial = init.f
        /\ last_id = init.last
        /\ NewProcess(t, init.f)

\* main.py:98-107: the registry is built, before the try block.  An exception
\* of create_ina_map is not caught: traceback, exit status 1.
CreateInaMap ==
    /\ pc = "create_ina_map"
    /\ LET r == create_ina_map(tests)
       IN  IF r.ok
           THEN /\ ina_map' = r.map
                /\ pc' = "get_test_id"
                /\ UNCHANGED <<exit_status, raised>>
           ELSE /\ pc' = "Traceback"
                /\ exit_status' = 1
                /\ raised' = "create_ina_map"
                /\ UNCHANGED ina_map
    /\ UNCHANGED <<session, tests, samples, i, k, file, file0, initial, last_id,
                   rounds, reads, flushes>>

\* main.py:119-126: i = get_test_id(testpath), inside the try block whose
\* handlers catch KeyboardInterrupt and DeviceRangeError only
GetTestId ==
    /\ pc = "get_test_id"
    /\ LET r == get_test_id(file)
       IN  IF r.ok
           THEN /\ i' = r.val
                /\ pc' = "for"
                /\ UNCHANGED <<exit_status, raised>>
           ELSE /\ pc' = "Traceback"
                /\ exit_status' = 1
                /\ raised' = "get_test_id"
                /\ UNCHANGED i
    /\ k' = 1
    /\ UNCHANGED <<session, tests, ina_map, samples, file, file0, initial, last_id,
                   rounds, reads, flushes>>

\* main.py:129-136: one iteration of the for loop, all three reads succeed
\* and the sample is appended; after the last sensor the loop body is done
ReadSensor ==
    /\ pc = "for"
    /\ rounds < MaxRounds
    /\ \E ts \in Times, power \in Power, supply_volt \in Voltage, current \in Current :
          samples' = Append(samples,
                            <<i, ina_map[k].label, ts, convert_to_datetime(ts),
                              power, supply_volt, current>>)
    /\ reads' = reads + 3
    /\ IF k = Len(ina_map)
       THEN /\ pc' = "incr"
            /\ rounds' = rounds + 1
            /\ UNCHANGED k
       ELSE /\ k' = k + 1
            /\ UNCHANGED <<pc, rounds>>
    /\ UNCHANGED <<session, tests, ina_map, i, exit_status, file, file0,
                   initial, last_id, raised, flushes>>

\* a loop that notes the range error and goes on with the next sensor
ReadSensorRangeError_continues ==
    /\ pc = "for"
    /\ rounds < MaxRounds
    /\ \E n \in 1..3 : reads' = reads + n
    /\ raised' = "DeviceRangeError"
    /\ IF k = Len(ina_map)
       THEN /\ pc' = "incr"
            /\ rounds' = rounds + 1
            /\ UNCHANGED k
       ELSE /\ k' = k + 1
            /\ UNCHANGED <<pc, rounds>>
    /\ UNCHANGED <<session, tests, ina_map, samples, i, exit_status, file,
                   file0, initial, last_id, flushes>>

\* main.py:132-134: the n-th of the three reads raises DeviceRangeError;
\* nothing is appended and control goes to the handler at main.py:149
ReadSensorRangeError ==
    /\ pc = "for"
    /\ rounds < MaxRounds
    /\ \E n \in 1..3 : reads' = reads + n
    /\ pc' = "except_DeviceRangeError"
    /\ raised' = "DeviceRangeError"
    /\ UNCHANGED <<session, tests, ina_map, samples, i, k, exit_status, file,
                   file0, initial, last_id, rounds, flushes>>

\* an identifier that advances once per sensor instead of once per round
Incr_per_sensor ==
    /\ pc = "incr"
    /\ i' = i + Len(ina_map)
    /\ k' = 1
    /\ pc' = "for"
    /\ UNCHANGED <<session, tests, ina_map, samples, exit_status, file, file0,
                   initial, last_id, rounds, reads, raised, flushes>>

\* main.py:138-143: i += 1 and back to the for loop
Incr ==
    /\ pc = "incr"
    /\ i' = i + 1
    /\ k' = 1
    /\ pc' = "for"
    /\ UNCHANGED <<session, tests, ina_map, samples, exit_status, file, file0,
                   initial, last_id, rounds, reads, raised, flushes>>

\* KeyboardInterrupt delivered while control is inside the try block
\* (main.py:119-143): at get_test_id, between or during the reads of a
\* round, or before i += 1
KeyboardInterrupt ==
    /\ pc \in {"get_test_id", "for", "incr"}
    /\ pc' = "except_KeyboardInterrupt"
    /\ raised' = "KeyboardInterrupt"
    /\ UNCHANGED <<session, tests, ina_map, samples, i, k, exit_status, file,
                   file0, initial, last_id, rounds, reads, flushes>>

\* KeyboardInterrupt delivered before the try block (main.py:98-117): no
\* handler of main() catches it, the process ends with a non-zero status
KeyboardInterruptAtStartup ==
    /\ pc = "create_ina_map"
    /\ pc' = "Traceback"
    /\ exit_status' = 1
    /\ raised' = "KeyboardInterrupt"
    /\ UNCHANGED <<session, tests, ina_map, samples, i, k, file, file0,
                   initial, last_id, rounds, reads, flushes>>

\* main.py:144-146: the handler's two messages
ExceptKeyboardInterrupt ==
    /\ pc = "except_KeyboardInterrupt"
    /\ pc' = "write_to_csv"
    /\ UNCHANGED <<session, tests, ina_map, samples, i, k, exit_status, file,
                   file0, initial, last_id, rounds, reads, raised, flushes>>

\* a KeyboardInterrupt handler that exits with status 1 after the flush
WriteToCsv_exit_1 ==
    /\ pc = "write_to_csv"
    /\ file' = write_to_csv(csv_header, samples, file)
    /\ flushes' = flushes + 1
    /\ last_id' = IF samples = << >> THEN last_id ELSE samples[Len(samples)][1]
    /\ UNCHANGED initial
    /\ pc' = "DONE"
    /\ exit_status' = 1
    /\ UNCHANGED <<session, tests, ina_map, samples, i, k, file0, rounds,
                   reads, raised>>

\* main.py:147-148: write_to_csv(csv_header, samples, testpath); sys.exit(0)
WriteToCsv ==
    /\ pc = "write_to_csv"
    /\ file' = write_to_csv(csv_header, samples, file)
    /\ flushes' = flushes + 1
    /\ last_id' = IF samples = << >> THEN last_id ELSE samples[Len(samples)][1]
    /\ UNCHANGED initial
    /\ pc' = "DONE"
    /\ exit_status' = 0
    /\ UNCHANGED <<session, tests, ina_map, samples, i, k, file0, rounds,
                   reads, raised>>

\* a DeviceRangeError handler that writes the buffer before it exits
ExceptDeviceRangeError_flushes ==
    /\ pc = "except_DeviceRangeError"
    /\ pc' = "ABORTED"
    /\ exit_status' = 1
    /\ file' = write_to_csv(csv_header, samples, file)
    /\ UNCHANGED <<session, tests, ina_map, samples, i, k, file0,
                   initial, last_id, rounds, reads, raised, flushes>>

\* main.py:149-151: the message and sys.exit(1); nothing is written
ExceptDeviceRangeError ==
    /\ pc = "except_DeviceRangeError"
    /\ pc' = "ABORTED"
    /\ exit_status' = 1
    /\ UNCHANGED <<session, tests, ina_map, samples, i, k, file, file0,
                   initial, last_id, rounds, reads, raised, flushes>>

\* the program is started again on the same path
Restart ==
    /\ Terminated
    /\ session < MaxSessions
    /\ session' = session + 1
    /\ tests' \in Configs
    /\ ina_map' = << >>
    /\ samples' = << >>
    /\ i' = 0
    /\ k' = 1
    /\ pc' = "create_ina_map"
    /\ exit_status' = -1
    /\ file0' = file
    /\ rounds' = 0
    /\ reads' = 0
    /\ raised' = "none"
    /\ flushes' = 0
    /\ UNCHANGED <<file, initial, last_id>>

Next ==
    \/ CreateInaMap
    \/ GetTestId
    \/ ReadSensor
    \/ ReadSensorRangeError
    \/ Incr
    \/ KeyboardInterrupt
    \/ KeyboardInterruptAtStartup
    \/ ExceptKeyboardInterrupt
    \/ WriteToCsv
    \/ ExceptDeviceRangeError
    \/ Restart

Spec == Init /\ [][Next]_vars

----------------------------------------------------------------------------
(* Helpers of the properties *)

\* the rows write_to_csv makes of a buffer
Rows(buffer) == [n \in 1..Len(buffer) |-> writerow(buffer[n])]

\* the lines a flush finds in the file, the header included if it creates it
LinesBeforeAppend(f) == IF f.exists THEN f.lines ELSE <<HeaderLine>>

\* the labels of a -t option in order of first appearance
RECURSIVE FirstAppearance(_)
FirstAppearance(ts) ==
    IF ts = << >> THEN << >>
    ELSE LET before == FirstAppearance(SubSeq(ts, 1, Len(ts) - 1))
             label  == ts[Len(ts)][1]
         IN  IF \E p \in 1..Len(before) : before[p] = label
             THEN before
             ELSE Append(before, label)

----------------------------------------------------------------------------
(* C1  Resume continuity.  In every session that reaches its first round,   *)
(* the first round's run identifier is N + 1 when the file found at start   *)
(* has a last row with run identifier N, and 1 when there was no file;      *)
(* every sample of the first round carries that identifier.                 *)
ResumeContinuity ==
    (State = "RUNNING" /\ rounds = 0) =>
        /\ i = (IF file0.exists THEN last_id + 1 ELSE 1)
        /\ \A n \in 1..Len(samples) : samples[n][1] = i

\* a second or later session resumes after rows an earlier session wrote,
\* past the 9 -> 10 digit change
ResumeContinuityWitness ==
    /\ session >= 2
    /\ pc = "for"
    /\ rounds = 0
    /\ Len(file0.lines) >= 4
    /\ last_id >= 10
    /\ i = last_id + 1

(* C2  Flush-on-cancel.  When the process is done after a cancellation with *)
(* N rounds completed, one flush call has appended exactly N x (sensor      *)
(* count) rows, equal to the buffered samples in order, wherever the signal *)
(* arrived.                                                                 *)
FlushOnCancel ==
    pc = "DONE" =>
        /\ flushes = 1
        /\ Len(samples) = rounds * Len(ina_map)
        /\ file.lines = LinesBeforeAppend(file0) \o Rows(samples)
        /\ Len(file.lines) = Len(LinesBeforeAppend(file0)) + rounds * Len(ina_map)

(* C3  When the cancellation interrupts a round in progress, the samples of *)
(* that incomplete round are not in the buffer: at flush time the buffer    *)
(* holds the samples of completed rounds only.                              *)
NoPartialRoundInBuffer ==
    State \in {"CANCELLED", "FLUSHING"} =>
        Len(samples) = rounds * Len(ina_map)

(* C4  No-flush-on-fault.  Once a sensor read has raised a range error, the *)
(* file is as it was at process start: nothing is written, no header, and   *)
(* a file that did not exist is not created.                                *)
NoFlushOnFault ==
    raised = "DeviceRangeError" =>
        /\ file = file0
        /\ flushes = 0

\* a fault in the middle of a later round, with earlier rounds buffered and
\* no file at the path
NoFlushOnFaultWitness ==
    /\ pc = "ABORTED"
    /\ raised = "DeviceRangeError"
    /\ rounds >= 1
    /\ k = 2
    /\ Len(samples) = rounds * Len(ina_map) + 1
    /\ ~file0.exists

(* C5  Round atomicity.  Every completed round in the buffer has exactly    *)
(* one sample per registered sensor, all with the round's run identifier    *)
(* (one more than the round before), in registry order; the registry order  *)
(* is the order in which the labels were configured.                        *)
RoundAtomicity ==
    LET n == Len(ina_map)
    IN  /\ Len(samples) >= rounds * n
        /\ \A r \in 1..rounds : \A j \in 1..n :
              /\ samples[(r - 1) * n + j][1] = samples[1][1] + (r - 1)
              /\ samples[(r - 1) * n + j][2] = ina_map[j].label
        /\ ina_map # << >> =>
              [p \in 1..n |-> ina_map[p].label] = FirstAppearance(tests)

\* two completed rounds of a registry built from three entries, two of them
\* with the same label
RoundAtomicityWitness ==
    /\ rounds = 2
    /\ Len(tests) = 3
    /\ Len(ina_map) = 2
    /\ Len(samples) = 4

----------------------------------------------------------------------------
\* number of rows of a file that are the header row
HeaderCount(f) == Cardinality({p \in 1..Len(f.lines) : f.lines[p] = HeaderLine})

(* C6  Header idempotence.  However many times the flush runs on a path,    *)
(* in one session or in successive ones, it writes the header only when it  *)
(* creates the file: a file the program created holds exactly one header    *)
(* row, and no later flush adds or removes a header row.                    *)
HeaderIdempotence ==
    /\ [](HeaderCount(file) <= 1)
    /\ []((file.exists /\ file.lines # << >> /\ file.lines[1] = HeaderLine)
            => HeaderCount(file) = 1)
    /\ [][HeaderCount(file') =
            (IF file.exists THEN HeaderCount(file)
             ELSE IF file'.exists THEN 1 ELSE 0)]_vars

\* a later session has flushed rows onto a file that an earlier session of
\* the program created (its first data row has run identifier 1)
HeaderIdempotenceWitness ==
    /\ session >= 2
    /\ pc = "DONE"
    /\ file0.exists
    /\ Len(file0.lines) >= 2
    /\ split(file0.lines[2])[1] = <<"1">>
    /\ Len(file.lines) > Len(file0.lines)
    /\ HeaderCount(file) = 1

(* C7 as stated.  Status 0 only after a handled cancellation and a finished *)
(* flush; status 1 exactly when a sensor read reported a range error.       *)
ExitStatusOnlyRangeError ==
    /\ exit_status = 0 => (pc = "DONE" /\ raised = "KeyboardInterrupt" /\ flushes = 1)
    /\ exit_status = 1 <=> (Terminated /\ raised = "DeviceRangeError")

(* C7 as amended.  Status 0 only after a handled cancellation and a         *)
(* finished flush; a reported range error always ends the process in        *)
(* ABORTED with status 1; status 1 is also the status of a process ended by *)
(* an exception that main() does not catch, which is no range error.  DONE  *)
(* is entered from FLUSHING only, FLUSHING from CANCELLED only, ABORTED     *)
(* from FAILED only, FAILED by a range error only.                          *)
ExitStatus ==
    /\ [](exit_status = 0 =>
             (pc = "DONE" /\ raised = "KeyboardInterrupt" /\ flushes = 1))
    /\ [](pc = "DONE" => exit_status = 0)
    /\ []((Terminated /\ raised = "DeviceRangeError") <=> pc = "ABORTED")
    /\ [](exit_status = 1 <=> pc \in {"ABORTED", "Traceback"})
    /\ [](pc = "Traceback" => raised \notin {"none", "DeviceRangeError"})
    /\ [][/\ (State' = "DONE" /\ State # "DONE") => State = "FLUSHING"
          /\ (State' = "FLUSHING" /\ State # "FLUSHING") => State = "CANCELLED"
          /\ (State' = "ABORTED" /\ State # "ABORTED") => State = "FAILED"
          /\ (State' = "FAILED" /\ State # "FAILED") =>
                 (State = "RUNNING" /\ raised' = "DeviceRangeError")]_vars

\* both endings have been taken: a session ended ABORTED with status 1
\* after a session that ended DONE with status 0 had written rows
ExitStatusWitness ==
    /\ session >= 2
    /\ pc = "ABORTED"
    /\ exit_status = 1
    /\ file0.exists
    /\ Len(file0.lines) >= 2
    /\ split(file0.lines[2])[1] = <<"1">>

\* whether a line can be read back as a Sample row: seven fields, the first
\* an integer
ValidSampleRow(line) ==
    /\ Len(split(line)) = Len(csv_header)
    /\ int(split(line)[1], 10).ok

\* an existing file whose final row is no Sample row (or that has no row)
CorruptLog(f) ==
    /\ f.exists
    /\ (f.lines = << >> \/ ~ValidSampleRow(f.lines[Len(f.lines)]))

(* C8  Corrupt log.  If the file exists but its final row cannot be parsed  *)
(* as a valid Sample row, the process fails before any sensor is sampled:   *)
(* it never reaches RUNNING, reads nothing and leaves the file unmodified.  *)
CorruptLogIsFatal ==
    CorruptLog(file0) =>
        /\ State # "RUNNING"
        /\ reads = 0
        /\ samples = << >>
        /\ file = file0

\* whether some entry of a -t option cannot be made into a handle
BadEntry(ts) ==
    \E p \in 1..Len(ts) :
        \/ ~int(ts[p][2], 16).ok
        \/ int(ts[p][2], 16).val \notin Attached

(* C9  Registry build failure is fatal at startup.  If the address of any   *)
(* configured entry cannot be parsed or its device cannot be initialised,   *)
(* no registry is used, no sensor is read, RUNNING is never reached, and    *)
(* the file is neither created nor modified.                                *)
RegistryFailureIsFatal ==
    BadEntry(tests) =>
        /\ ina_map = << >>
        /\ State \in {"INIT", "Traceback"}
        /\ pc # "get_test_id"
        /\ reads = 0
        /\ samples = << >>
        /\ file = file0

\* the process has ended at startup on an option whose first entry is good
\* and whose second is not, in a later session with a log on disk
RegistryFailureIsFatalWitness ==
    /\ pc = "Traceback"
    /\ raised = "create_ina_map"
    /\ Len(tests) = 2
    /\ session >= 2
    /\ Len(file.lines) >= 3

\* the run identifiers of the data rows of a file, in file order (0 for a
\* row whose first field is no integer)
RunIds(f) ==
    LET data == SelectSeq(f.lines, LAMBDA line : line # HeaderLine)
    IN  [p \in 1..Len(data) |-> int(split(data[p])[1], 10).val]

NonDecreasing(ids) == \A p \in 1..(Len(ids) - 1) : ids[p] <= ids[p + 1]

(* C10  Round ordering.  In the buffer at every point of a session and in   *)
(* the file after any sequence of sessions, the run identifier never        *)
(* decreases from one row to the next, so the rows of a round are           *)
(* contiguous and rounds do not interleave.                                 *)
RoundOrdering ==
    /\ NonDecreasing([n \in 1..Len(samples) |-> samples[n][1]])
    /\ NonDecreasing(RunIds(file))

\* the file holds rows of several rounds written by two sessions
RoundOrderingWitness ==
    /\ session >= 2
    /\ pc = "DONE"
    /\ rounds = 2
    /\ Len(samples) = 4
    /\ Len(file0.lines) >= 4
    /\ Len(file.lines) = Len(file0.lines) + 4

----------------------------------------------------------------------------
\* the identifier the session's first round uses
FirstId == IF file0.exists THEN last_id + 1 ELSE 1

\* the set of run identifiers of the data rows of a file
RunIdSet(f) == {RunIds(f)[p] : p \in 1..Len(RunIds(f))}

(* C11  Identifier sequence.  While rounds are polled the run identifier is *)
(* the session's first identifier plus the number of completed rounds,      *)
(* whatever the number of sensors; and on a path that had no file at first, *)
(* after any sequence of sessions, the run identifiers in the file are      *)
(* exactly 1..K, K being the identifier of the last row.                    *)
IdentifierSequence ==
    /\ pc = "for" => i = FirstId + rounds
    /\ pc = "incr" => i = FirstId + rounds - 1
    /\ (~initial.exists /\ file.exists) =>
          LET ids == RunIds(file)
              K   == IF ids = << >> THEN 0 ELSE ids[Len(ids)]
          IN  RunIdSet(file) = 1..K

\* a file the program created holds the rounds of three sessions, the last
\* of them with two sensors
IdentifierSequenceWitness ==
    /\ ~initial.exists
    /\ session = 3
    /\ pc = "DONE"
    /\ Len(ina_map) = 2
    /\ rounds = 2
    /\ file0.exists
    /\ RunIdSet(file0) = 1..2
    /\ RunIdSet(file) = 1..4

----------------------------------------------------------------------------
(* C12  The file is unchanged throughout INIT and RUNNING; the flush is     *)
(* invoked at most once per process run and only in FLUSHING; FLUSHING is   *)
(* entered only after a cancellation signal received in RUNNING, never from *)
(* INIT and never after a sensor fault.                                     *)
FlushOnlyAfterRunning ==
    /\ [](State \in {"INIT", "RUNNING"} => (file = file0 /\ flushes = 0))
    /\ [](flushes <= 1)
    /\ [][file' # file => State = "FLUSHING"]_vars
    /\ [][(State' = "FLUSHING" /\ State # "FLUSHING") =>
             (State = "CANCELLED" /\ raised = "KeyboardInterrupt")]_vars
    /\ [][(State' = "CANCELLED" /\ State # "CANCELLED") => State = "RUNNING"]_vars

----------------------------------------------------------------------------
IsPrefix(a, b) == Len(a) <= Len(b) /\ SubSeq(b, 1, Len(a)) = a

(* C13  Append-only file structure.  Every step, the flush included, leaves *)
(* the file's previous lines as an unchanged prefix of its lines and never  *)
(* removes the file; on a path that had no file at first, after any         *)
(* sequence of sessions, the first row is the header and every later row is *)
(* a Sample row, never the header.                                          *)
AppendOnly ==
    /\ [][IsPrefix(file.lines, file'.lines) /\ (file.exists => file'.exists)]_vars
    /\ []((~initial.exists /\ file.exists) =>
             /\ file.lines # << >>
             /\ file.lines[1] = HeaderLine
             /\ \A p \in 2..Len(file.lines) :
                   /\ ValidSampleRow(file.lines[p])
                   /\ file.lines[p] # HeaderLine)

\* a later session has appended rows, the last round cut short, to a file
\* the program created and an earlier session filled
AppendOnlyWitness ==
    /\ ~initial.exists
    /\ session >= 2
    /\ pc = "DONE"
    /\ Len(file0.lines) >= 3
    /\ Len(ina_map) = 2
    /\ Len(samples) = 3
    /\ file.lines = file0.lines \o Rows(samples)

----------------------------------------------------------------------------
(* C14  Fail-fast on range error.  The step in which a handle read raises   *)
(* a range error adds nothing to the buffer and goes to the handler; from   *)
(* then on, in that process, no handle is read again and the buffer is not  *)
(* extended: no retry and no continuation with the remaining sensors.       *)
FailFast ==
    [][/\ (raised' = "DeviceRangeError" /\ raised # "DeviceRangeError") =>
             /\ samples' = samples
             /\ reads' \in (reads + 1)..(reads + 3)
             /\ State' = "FAILED"
       /\ (raised = "DeviceRangeError" /\ session' = session) =>
             /\ reads' = reads
             /\ samples' = samples
             /\ State' = "ABORTED"]_vars

\* the process has ended after the second read of the second sensor raised
\* in a later round, with the first sensor of that round already sampled
FailFastWitness ==
    /\ pc = "ABORTED"
    /\ raised = "DeviceRangeError"
    /\ Len(ina_map) = 2
    /\ k = 2
    /\ rounds >= 1
    /\ Len(samples) = 2 * rounds + 1
    /\ reads = 3 * Len(samples) + 2

----------------------------------------------------------------------------
(* C15  Restartability after cancellation.  The file left by a session that *)
(* ended by cancellation (one that started on no file or on a file it could *)
(* resume from), also when it was cancelled before a sample was buffered,   *)
(* is a file on which the next session's get_test_id succeeds.              *)
RestartableAfterCancel ==
    (pc = "DONE" /\ get_test_id(file0).ok) => get_test_id(file).ok

====
